---- MODULE Spec2Model ----
(***************************************************************************)
(* A model of the avido-node tracing client: the event queue with its      *)
(* batched transport (src/src/avido.ts) and the call wrapper with its      *)
(* ambient run-id context (src/src/index.ts, src/src/chainable.ts,         *)
(* context.ts).  JavaScript runs one synchronous segment at a time, so an  *)
(* action is one synchronous segment: from a call or a resumed await up to *)
(* the next await.                                                         *)
(***************************************************************************)
EXTENDS Integers, Sequences, FiniteSets, TLC

\* undefined
None == 0

\* avido.ts:22
MAX_CHUNK_SIZE == 10

\* Bounds of the model.
MaxEvents == 3     \* trackEvent calls in all
MaxBurst == 11     \* trackEvent calls in all, in a burst past the chunk size
MaxClock == 1      \* readings of Date.now() range over 1 .. 1 + MaxClock
MaxThreads == 1    \* openThread calls in all
MaxCalls == 3      \* invocations of the wrapped function in all
MaxTraced == 1     \* wrapped calls awaited where the transport runs as well
MaxReports == 1    \* trackToolCall and error calls in all
MaxOpened == 2     \* openThread calls in all, where threads are told apart
MaxMessages == 2   \* trackMessage calls in all
MaxBindings == 2   \* setEvaluationId calls in all
MaxArgs == 2       \* parameters of a wrapped function, and arguments of a call
MaxTokens == 3     \* elements of a forked stream
MaxNexts == 4      \* next() calls on one fork of a stream
MaxSteps == 2      \* steps of the clock in one quiet period of the debounce

VARIABLES
  configured,      \* appId, apiKey and apiUrl are all set
  onlySendEvals,   \* Avido.onlySendEvals
  activeEval,      \* activeThread?.getEvaluationId(), None without a thread
  threads,         \* number of openThread calls so far
  queue,           \* Avido.queue
  running,         \* Avido.running
  timer,           \* the debounce timer is armed
  inflight,        \* ingest requests awaiting their response: the copy of each
  clock,           \* the current reading of Date.now()
  log,             \* history: every event appended, in the order of the calls
  delivered,       \* history: the events of every batch whose request resolved
  failed,          \* history: the batch of the last failed request, until a
                   \* request resolves
  lastOp,          \* history: the handler that ran last
  wrap,            \* the wrapped function: the type and the params of wrap()
  call,            \* the invocations of the wrapped function
  store,           \* the run id held by each asynchronous context
  threadEval,      \* the evaluationId of each Thread opened, in order
  msgs,            \* history: the trackMessage calls made on these threads
  messages,        \* Thread.messages of a thread that remembers its messages
  bindings,        \* history: the setEvaluationId calls made on that thread
  fn,              \* a function handed to wrap, its arguments, and the input
                   \* derived from them
  uncaught,        \* history: the failure of a request has left processQueue
  status,          \* history: the status of the last response to a request
  tee,             \* a stream forked in two by teeAsync
  flusher,         \* a caller of flush() that awaits it
  age              \* the time since the last append and since the debounce
                   \* timer was last set

vars == <<configured, onlySendEvals, activeEval, threads, queue, running,
          timer, inflight, clock, log, delivered, failed, lastOp, wrap, call,
          store, threadEval, msgs, messages, bindings, fn, uncaught, status,
          tee, flusher, age>>

config == <<configured, onlySendEvals, activeEval, threads>>

tracer == <<wrap, call, store>>

more == <<threadEval, msgs, messages, bindings, fn, tee, flusher, age>>

\* A value that is not an object built by the library
bare(v) == [obj |-> FALSE, val |-> v]

\* No stream forked yet: the number of next() calls made on the source, the
\* buffer of each fork (the results of the source it has still to hand out)
\* and whether the fork is open, the results each fork has handed out, and
\* the number of return() calls made on the source.  size is the number of
\* elements of the source.
noTee == [size |-> 0, pulled |-> 0, buffers |-> <<<<>>, <<>>>>,
          open |-> <<TRUE, TRUE>>, got |-> <<<<>>, <<>>>>, returned |-> 0]

\* Nobody awaits flush().
noFlusher == [pc |-> "idle", during |-> FALSE, slept |-> 0]

\* Nothing appended and no timer set yet.
noAge == [enqueue |-> 0, timer |-> 0]

\* No function looked at yet.
noFn == [argNames |-> <<>>, args |-> <<>>, input |-> bare(None),
         has |-> FALSE]

Calls == 1..MaxCalls

\* The asynchronous contexts: 0 is the application's own; c is the one that
\* executeWrappedFunction opens for the function of invocation c, and
\* MaxCalls + c the one that setParent opens around invocation c.
Chains == 0..(2 * MaxCalls)

funcChain(c) == c

parentChain(c) == MaxCalls + c

\* A run id the application holds and hands to setParent.
ExternalRunId == 201

\* An invocation, which is one run of executeWrappedFunction: where its
\* function stands ("skipped": executeWrappedFunction threw before calling
\* it), the invocation whose function made it (None: the application), the
\* _parentRunId of its CallInfo (None: not set), the pending value (the
\* wrappedFn call) it belongs to, what its caller has got from it so far and
\* what its caller gets when the send it awaits has settled; and as history
\* the context it was made in, the run id visible there, and what its
\* function returned.
idle == [pc |-> "idle", caller |-> None, parent |-> None, proxy |-> None,
         outcome |-> "pending", next |-> "none", encl |-> 0, prev |-> None,
         ret |-> None]

\* What the function of invocation c returns when it resolves.
returnValue(c) == 10 + c

----------------------------------------------------------------------------
\* Sequences

IsPrefix(s, t) == Len(s) <= Len(t) /\ SubSeq(t, 1, Len(s)) = s

\* Array.prototype.slice(k)
slice(s, k) == SubSeq(s, k + 1, Len(s))

----------------------------------------------------------------------------
\* The transport state a handler reads and writes, as one value.

Q == [queue |-> queue, running |-> running, timer |-> timer,
      inflight |-> inflight, log |-> log, delivered |-> delivered,
      failed |-> failed, uncaught |-> uncaught, status |-> status]

SetQ(s) ==
  /\ queue' = s.queue
  /\ running' = s.running
  /\ timer' = s.timer
  /\ inflight' = s.inflight
  /\ log' = s.log
  /\ delivered' = s.delivered
  /\ failed' = s.failed
  /\ uncaught' = s.uncaught
  /\ status' = s.status

\* A gate that lets every event through.
shouldSendEvent_always == TRUE

\* Avido.shouldSendEvent
shouldSendEvent == ~onlySendEvals \/ activeEval # None

\* Mutant: the guard does not look at running.
processQueue_ignoresRunning(s) ==
  IF Len(s.queue) = 0
  THEN s
  ELSE [s EXCEPT !.running = TRUE, !.inflight = Append(@, s.queue)]

\* Mutant: the guard does not look at the length of the queue.
processQueue_sendsEmpty(s) ==
  IF s.running
  THEN s
  ELSE [s EXCEPT !.running = TRUE, !.inflight = Append(@, s.queue)]

\* Avido.processQueue up to its await: the guard, running = true, the copy,
\* and the request issued with the copy as its body.
processQueue(s) ==
  IF Len(s.queue) = 0 \/ s.running
  THEN s
  ELSE [s EXCEPT !.running = TRUE, !.inflight = Append(@, s.queue)]

\* Mutant: the whole queue is cleared after a send.
processQueueResolved_clearsAll(s, copy) ==
  processQueue([s EXCEPT !.queue = <<>>, !.running = FALSE,
                         !.delivered = @ \o copy, !.failed = <<>>])

\* A processQueue that starts no request of its own after a send.
processQueueResolved_noFollowUp(s, copy) ==
  [s EXCEPT !.queue = slice(@, Len(copy)), !.running = FALSE,
            !.delivered = @ \o copy, !.failed = <<>>]

\* A processQueue that cuts one event off the queue, whatever it sent.
processQueueResolved_cutsOne(s, copy) ==
  processQueue([s EXCEPT !.queue = Tail(@), !.running = FALSE,
                         !.delivered = @ \o copy, !.failed = <<>>])

\* A processQueue that looks at the status of the response and takes an
\* HTTP error for a failure.
processQueueResolved_checksStatus(s, copy) ==
  IF s.status >= 400
  THEN [s EXCEPT !.running = FALSE, !.failed = copy]
  ELSE processQueue([s EXCEPT !.queue = slice(@, Len(copy)),
                              !.running = FALSE,
                              !.delivered = @ \o copy, !.failed = <<>>])

\* Avido.processQueue after the request resolved: the sent events are cut
\* off the head of the queue, running = false, and a next send is started
\* when the queue is not empty.
processQueueResolved(s, copy) ==
  LET rest == slice(s.queue, Len(copy)) IN
  processQueue([s EXCEPT !.queue = rest, !.running = FALSE,
                         !.delivered = @ \o copy, !.failed = <<>>])

\* Mutant: the batch is cut off the queue on failure too.
processQueueRejected_dropsBatch(s, copy) ==
  [s EXCEPT !.queue = slice(@, Len(copy)), !.running = FALSE,
            !.failed = copy]

\* A catch clause that sets a timer to send again.
processQueueRejected_retryTimer(s, copy) ==
  [s EXCEPT !.running = FALSE, !.failed = copy, !.timer = TRUE]

\* A catch clause that lets the failure go on to whoever awaits.
processQueueRejected_rethrows(s, copy) ==
  [s EXCEPT !.running = FALSE, !.failed = copy, !.uncaught = TRUE]

\* Avido.processQueue after the request threw or rejected.
processQueueRejected(s, copy) ==
  [s EXCEPT !.running = FALSE, !.failed = copy]

\* Avido.flush.  While running, the loop calls wait(100) without awaiting
\* it, so it counts to 10 within the same synchronous segment and returns.
flush(s) == IF ~s.running THEN processQueue(s) ELSE s

\* utils generateUUID: an id no run and no other event has.
generateUUID(s) == 100 + Len(s.log) + 1

\* Mutant: the event is put at the head (unshift).
push_unshift(q, e) == <<e>> \o q

\* Array.prototype.push
push(q, e) == Append(q, e)

\* data.f, undefined when data has no f
Field(data, f) == IF f \in DOMAIN data THEN data[f] ELSE None

\* The event object trackEvent builds; n is the identity of the object, the
\* ordinal of the append.
eventData(s, type, event, data) ==
  [n |-> Len(s.log) + 1,
   type |-> type,
   event |-> event,
   runId |-> IF data.runId # None THEN data.runId ELSE generateUUID(s),
   parentRunId |-> data.parentRunId,
   evaluationId |->
     IF data.evaluationId # None THEN data.evaluationId ELSE activeEval,
   output |-> Field(data, "output"),
   timestamp |-> clock]

\* A trackEvent that leaves every send to the debounce timer.
trackEventWhen_debounces(gate, s, type, event, data) ==
  IF ~configured THEN s
  ELSE IF ~gate THEN s
  ELSE LET e == eventData(s, type, event, data)
       IN [s EXCEPT !.queue = push(@, e), !.log = Append(@, e),
                    !.timer = TRUE]

\* Avido.trackEvent, where shouldSendEvent() returns gate
trackEventWhen(gate, s, type, event, data) ==
  IF ~configured THEN s
  ELSE IF ~gate THEN s
  ELSE LET e == eventData(s, type, event, data)
           t == [s EXCEPT !.queue = push(@, e), !.log = Append(@, e)]
       IN IF Len(t.queue) > MAX_CHUNK_SIZE
          THEN processQueue(t)
          ELSE [t EXCEPT !.timer = TRUE]

\* Avido.trackEvent
trackEvent(s, type, event, data) ==
  trackEventWhen(shouldSendEvent, s, type, event, data)

\* wrapTool(func, {}): no parser, track left at its default.  pre tells that
\* one of the parsers that run before the function throws (nameParser,
\* paramsParser, metadataParser, userIdParser, evaluationIdParser,
\* inputParser), post that one of those that run after it does
\* (tokensUsageParser, outputParser).
plainWrap == [type |-> "tool", track |-> TRUE, pre |-> FALSE, post |-> FALSE]

\* The invocations that awaited a processQueue() which has thrown get that
\* failure.
rethrown(cl) ==
  [c \in Calls |->
     IF cl[c].next # "none"
     THEN [cl[c] EXCEPT !.outcome = "other", !.next = "none"]
     ELSE cl[c]]

\* The caller of flush() that awaited the request which has settled goes on.
flushSettled(f) ==
  IF f.pc = "awaiting" THEN [f EXCEPT !.pc = "returned"] ELSE f

\* The invocations that awaited the request which has settled go on.
resume(cl) ==
  [c \in Calls |->
     IF cl[c].next # "none"
     THEN [cl[c] EXCEPT !.outcome = cl[c].next, !.next = "none"]
     ELSE cl[c]]

----------------------------------------------------------------------------
Init ==
  /\ configured \in BOOLEAN
  /\ onlySendEvals = TRUE
  /\ activeEval = None
  /\ threads = 0
  /\ queue = <<>>
  /\ running = FALSE
  /\ timer = FALSE
  /\ inflight = <<>>
  /\ clock = 1
  /\ log = <<>>
  /\ delivered = <<>>
  /\ failed = <<>>
  /\ lastOp = "new"
  /\ wrap = plainWrap
  /\ call = [c \in Calls |-> idle]
  /\ store = [k \in Chains |-> None]
  /\ threadEval = <<>>
  /\ msgs = <<>>
  /\ messages = <<>>
  /\ bindings = <<>>
  /\ uncaught = FALSE
  /\ status = None
  /\ tee = noTee
  /\ flusher = noFlusher
  /\ age = noAge
  /\ fn = noFn

\* Avido.init
InitCall ==
  \E complete \in BOOLEAN, ose \in BOOLEAN :
    /\ configured' = (configured \/ complete)
    /\ onlySendEvals' = ose
    /\ lastOp' = "init"
    /\ UNCHANGED <<activeEval, threads, queue, running, timer, inflight,
                   clock, log, delivered, failed, uncaught,
                 status, tracer,
                 more>>

\* Avido.openThread, the limit-th at most, with an evaluationId of evs
OpenThreadCall(limit, evs) ==
  \E ev \in evs :
    /\ threads < limit
    /\ threads' = threads + 1
    /\ activeEval' = ev
    /\ threadEval' = Append(threadEval, ev)
    /\ lastOp' = "openThread"
    /\ UNCHANGED <<configured, onlySendEvals, queue, running, timer,
                   inflight, clock, log, delivered, failed, uncaught,
                 status, tracer, msgs,
                   messages, bindings, fn,
                 tee, flusher, age>>

OpenThread == OpenThreadCall(MaxThreads, {None, 1})

\* Date.now() moves on.
Tick ==
  /\ clock < 1 + MaxClock
  /\ clock' = clock + 1
  /\ lastOp' = "tick"
  /\ UNCHANGED <<config, queue, running, timer, inflight, log, delivered,
                 failed, uncaught,
                 status, tracer,
                 more>>

\* A call of the public trackEvent, the limit-th at most.
TrackEventCall(limit) ==
  /\ Len(log) < limit
  /\ SetQ(trackEvent(Q, "log", "info",
                     [runId |-> None, parentRunId |-> None,
                      evaluationId |-> None]))
  /\ lastOp' = "trackEvent"
  /\ UNCHANGED <<config, clock, tracer, more>>

TrackEvent == TrackEventCall(MaxEvents)

TrackEventBurst == TrackEventCall(MaxBurst)

\* The debounce timer fires (utils debounce, avido.ts:135).
DebounceFire ==
  /\ timer
  /\ SetQ(processQueue([Q EXCEPT !.timer = FALSE]))
  /\ lastOp' = "debounce"
  /\ UNCHANGED <<config, clock, tracer, more>>

\* A call of flush(): by the application, or at the end of a streamed run.
Flush ==
  /\ SetQ(flush(Q))
  /\ lastOp' = "flush"
  /\ UNCHANGED <<config, clock, tracer, more>>

\* A call of processQueue() from outside: the error path of a wrapped call.
ProcessQueue ==
  /\ SetQ(processQueue(Q))
  /\ lastOp' = "processQueue"
  /\ UNCHANGED <<config, clock, tracer, more>>

\* The ingest request i gets a response, whose status is one of statuses.
SendResponse(statuses) ==
  \E i \in 1..Len(inflight), st \in statuses :
    /\ SetQ(processQueueResolved(
              [Q EXCEPT !.inflight = SubSeq(@, 1, i - 1) \o slice(@, i),
                        !.status = st],
              inflight[i]))
    /\ call' = resume(call)
    /\ flusher' = flushSettled(flusher)
    /\ lastOp' = "sendSuccess"
    /\ UNCHANGED <<config, clock, wrap, store, threadEval, msgs, messages,
                   bindings, fn, tee, age>>

\* The ingest request i resolves: 200 OK.
SendSuccess == SendResponse({200})

\* The ingest request i throws or rejects.
SendFailure ==
  \E i \in 1..Len(inflight) :
    /\ LET t == processQueueRejected(
                  [Q EXCEPT !.inflight = SubSeq(@, 1, i - 1) \o slice(@, i)],
                  inflight[i])
       IN /\ SetQ(t)
          /\ call' = IF t.uncaught THEN rethrown(call) ELSE resume(call)
    /\ flusher' = flushSettled(flusher)
    /\ lastOp' = "sendFailure"
    /\ UNCHANGED <<config, clock, wrap, store, threadEval, msgs, messages,
                   bindings, fn, tee, age>>

Next ==
  \/ InitCall
  \/ OpenThread
  \/ Tick
  \/ TrackEvent
  \/ DebounceFire
  \/ Flush
  \/ ProcessQueue
  \/ SendSuccess
  \/ SendFailure

Spec == Init /\ [][Next]_vars

----------------------------------------------------------------------------
\* A burst of trackEvent calls within one clock reading, on a monitor that
\* init() configured with onlySendEvals: false.

InitBurst ==
  /\ configured = TRUE
  /\ onlySendEvals = FALSE
  /\ activeEval = None
  /\ threads = 0
  /\ queue = <<>>
  /\ running = FALSE
  /\ timer = FALSE
  /\ inflight = <<>>
  /\ clock = 1
  /\ log = <<>>
  /\ delivered = <<>>
  /\ failed = <<>>
  /\ lastOp = "init"
  /\ wrap = plainWrap
  /\ call = [c \in Calls |-> idle]
  /\ store = [k \in Chains |-> None]
  /\ threadEval = <<>>
  /\ msgs = <<>>
  /\ messages = <<>>
  /\ bindings = <<>>
  /\ uncaught = FALSE
  /\ status = None
  /\ tee = noTee
  /\ flusher = noFlusher
  /\ age = noAge
  /\ fn = noFn

NextBurst ==
  \/ TrackEventBurst
  \/ DebounceFire
  \/ Flush
  \/ ProcessQueue
  \/ SendSuccess
  \/ SendFailure

BurstSpec == InitBurst /\ [][NextBurst]_vars

----------------------------------------------------------------------------
\* The call wrapper and the context store.

\* Mutant: the context is created without asyncContext.
asyncContext_off == FALSE

\* context.ts: createContext({ asyncContext: true, AsyncLocalStorage }).
asyncContext == TRUE

\* ctx.runId.callAsync(v, fn), on entry: with asyncContext the value is held
\* by the asynchronous context that runs fn and its continuations; without
\* it the value is held by the one shared slot, for the synchronous part of
\* fn only.
callAsync(st, chain, v) ==
  IF asyncContext THEN [st EXCEPT ![chain] = v] ELSE st

\* The run id visible to code that runs in a chain, between two awaits.
tryUse(st, chain) == IF asyncContext THEN st[chain] ELSE None

\* index.ts:63; the c-th invocation draws the c-th id.
newRunId(c) == c

\* Mutant: the run id given to setParent is kept for all invocations of the
\* wrapped function, not on the CallInfo of one.
eventParentRunId_shared(target, c) ==
  IF \E d \in Calls : call[d].parent # None
  THEN ExternalRunId
  ELSE target._parentRunId

\* The parentRunId that executeWrappedFunction puts on the start and the end
\* event of invocation c, target being its CallInfo.
eventParentRunId(target, c) == target._parentRunId

\* await this.processQueue() in an invocation: the synchronous part of
\* processQueue, and what the caller will get.  The invocation goes on at
\* once when processQueue returned at its guard, and when the request has
\* settled when processQueue issued one.
awaitProcessQueue(s, cl, c, outcome) ==
  LET t == processQueue(s) IN
  [q |-> t,
   call |-> IF t.inflight # s.inflight
            THEN [cl EXCEPT ![c].next = outcome]
            ELSE [cl EXCEPT ![c].outcome = outcome]]

\* A catch block that records nothing and rethrows.
catchBlock_silent(s, cl, c, outcome) ==
  awaitProcessQueue(s, cl, c, outcome)

\* The catch block of executeWrappedFunction in invocation c, whose caller
\* gets outcome in the end.
catchBlock(s, cl, c, outcome) ==
  IF wrap.track # FALSE
  THEN awaitProcessQueue(
         trackEvent(s, wrap.type, "error",
                    [runId |-> newRunId(c), parentRunId |-> None,
                     evaluationId |-> None]),
         cl, c, outcome)
  ELSE [q |-> s, call |-> [cl EXCEPT ![c].outcome = outcome]]

\* A property of the pending value p is read by code that runs in invocation
\* a (or by the application, a = 0), which starts invocation c: then, catch
\* or finally when x is not set (an await reads then), setParent and its
\* call with x when x is set.  It runs setParent, and
\* executeWrappedFunction up to its await of the function.
Access(c, a, x, p) ==
  /\ call[c].pc = "idle"
  /\ \A d \in 1..(c - 1) : call[d].pc # "idle"
  /\ a # 0 => call[a].pc = "func"
  /\ LET from == IF a = 0 THEN 0 ELSE funcChain(a)
         earlier == {d \in Calls : call[d].pc # "idle" /\ call[d].proxy = p}
         kept == IF earlier = {} THEN None
                 ELSE call[CHOOSE d \in earlier :
                             \A e \in earlier : e <= d].parent
         target == [_parentRunId |-> IF x # None THEN x ELSE kept]
         st1 == IF x # None
                THEN callAsync(store, parentChain(c), x)
                ELSE store
         encl == IF x # None THEN parentChain(c) ELSE from
         runId == newRunId(c)
         s1 == IF ~wrap.pre /\ wrap.track # FALSE
               THEN trackEvent(Q, wrap.type, "start",
                               [runId |-> runId,
                                parentRunId |-> eventParentRunId(target, c),
                                evaluationId |-> None])
               ELSE Q
         made == [idle EXCEPT !.caller = a, !.parent = target._parentRunId,
                              !.proxy = p, !.encl = encl,
                              !.prev = tryUse(st1, encl)]
     IN /\ SetQ(s1)
        /\ store' = IF wrap.pre THEN st1
                    ELSE callAsync(st1, funcChain(c), runId)
        /\ call' = [call EXCEPT ![c] =
                      IF wrap.pre
                      THEN [made EXCEPT !.pc = "skipped", !.outcome = "other"]
                      ELSE [made EXCEPT !.pc = "func"]]
  /\ lastOp' = "invoke"
  /\ UNCHANGED <<config, clock, wrap, more>>

\* wrappedFn(...args), with .setParent(x) when x is set, awaited.
Invoke ==
  \E c \in Calls, a \in Calls \cup {0}, x \in {None, ExternalRunId} :
    Access(c, a, x, c)

\* The function of invocation c resolves: processOutput, or the catch
\* block when a parser throws in it.
FuncResolve ==
  \E c \in Calls :
    /\ call[c].pc = "func"
    /\ LET target == [_parentRunId |-> call[c].parent]
           v == returnValue(c)
           cl == [call EXCEPT ![c].pc = "done", ![c].ret = v]
           r == IF wrap.track = FALSE
                THEN [q |-> Q, call |-> [cl EXCEPT ![c].outcome = "result"]]
                ELSE IF wrap.post
                THEN catchBlock(Q, cl, c, "other")
                ELSE [q |-> trackEvent(Q, wrap.type, "end",
                              [runId |-> newRunId(c),
                               parentRunId |-> eventParentRunId(target, c),
                               evaluationId |-> None,
                               output |-> v]),
                      call |-> [cl EXCEPT ![c].outcome = "result"]]
       IN SetQ(r.q) /\ call' = r.call
    /\ lastOp' = "resolve"
    /\ UNCHANGED <<config, clock, wrap, store, more>>

\* The function of invocation c throws or rejects: the catch block.
FuncReject ==
  \E c \in Calls :
    /\ call[c].pc = "func"
    /\ LET r == catchBlock(Q, [call EXCEPT ![c].pc = "thrown"], c, "error")
       IN SetQ(r.q) /\ call' = r.call
    /\ lastOp' = "reject"
    /\ UNCHANGED <<config, clock, wrap, store, more>>

\* The wrapper and the context store alone, on a monitor that init()
\* configured with onlySendEvals: false and a function wrapped by wrapTool.
\* The transport reads and writes nothing of the invocations and the
\* contexts, and is left out.
InitContext ==
  /\ configured = TRUE
  /\ onlySendEvals = FALSE
  /\ activeEval = None
  /\ threads = 0
  /\ queue = <<>>
  /\ running = FALSE
  /\ timer = FALSE
  /\ inflight = <<>>
  /\ clock = 1
  /\ log = <<>>
  /\ delivered = <<>>
  /\ failed = <<>>
  /\ lastOp = "init"
  /\ wrap = plainWrap
  /\ call = [c \in Calls |-> idle]
  /\ store = [k \in Chains |-> None]
  /\ threadEval = <<>>
  /\ msgs = <<>>
  /\ messages = <<>>
  /\ bindings = <<>>
  /\ uncaught = FALSE
  /\ status = None
  /\ tee = noTee
  /\ flusher = noFlusher
  /\ age = noAge
  /\ fn = noFn

NextContext ==
  \/ Invoke
  \/ FuncResolve
  \/ FuncReject

ContextSpec == InitContext /\ [][NextContext]_vars

----------------------------------------------------------------------------
\* The wrapper beside the other producers of events and the transport.

\* The id of a tool call the application reports through trackToolCall.
ToolCallId == 501

\* The trackToolCall and error calls made so far that got past the guards
reports ==
  Cardinality({i \in 1..Len(log) :
                 \/ log[i].runId = ToolCallId
                 \/ log[i].type = "log" /\ log[i].event = "error"})

\* Avido.trackToolCall
TrackToolCall ==
  /\ reports < MaxReports
  /\ SetQ(trackEvent(Q, "tool", "end",
                     [runId |-> ToolCallId, parentRunId |-> None,
                      evaluationId |-> activeEval]))
  /\ lastOp' = "trackToolCall"
  /\ UNCHANGED <<config, clock, tracer, more>>

\* Avido.error
ErrorCall ==
  /\ reports < MaxReports
  /\ SetQ(trackEvent(Q, "log", "error",
                     [runId |-> None, parentRunId |-> None,
                      evaluationId |-> None]))
  /\ lastOp' = "error"
  /\ UNCHANGED <<config, clock, tracer, more>>

\* wrappedFn(...args) by the application, awaited.
Await ==
  \E c \in 1..MaxTraced : Access(c, 0, None, c)

\* One more property of a pending value is read, one that has been read
\* before: p.then(f) and then p.catch(g), say.
Reaccess ==
  \E c \in Calls, d \in Calls :
    /\ d < c
    /\ call[d].pc # "idle"
    /\ Access(c, 0, None, call[d].proxy)

\* Thread.id of the t-th thread opened
threadId(t) == 300 + t

\* message.id ?? generateUUID() of the next message
messageRunId == 400 + Len(msgs) + 1

\* Thread.trackMessage
TrackMessage ==
  \E t \in 1..Len(threadEval) :
    /\ Len(msgs) < MaxMessages
    /\ msgs' = Append(msgs, [thread |-> t, runId |-> messageRunId])
    /\ IF ~onlySendEvals \/ threadEval[t] # None
       THEN SetQ(trackEvent(Q, "thread", "chat",
                            [runId |-> messageRunId,
                             parentRunId |-> threadId(t),
                             evaluationId |-> threadEval[t]]))
       ELSE SetQ(Q)
    /\ lastOp' = "trackMessage"
    /\ UNCHANGED <<config, clock, tracer, threadEval, messages, bindings,
                   fn,
                 tee, flusher, age>>

\* Any configuration, any params of wrap; no thread, so that the gate is
\* open when onlySendEvals is off.
InitTracer ==
  /\ configured \in BOOLEAN
  /\ onlySendEvals \in BOOLEAN
  /\ activeEval = None
  /\ threads = 0
  /\ queue = <<>>
  /\ running = FALSE
  /\ timer = FALSE
  /\ inflight = <<>>
  /\ clock = 1
  /\ log = <<>>
  /\ delivered = <<>>
  /\ failed = <<>>
  /\ lastOp = "init"
  /\ wrap \in [type : {"tool", "llm"}, track : BOOLEAN, pre : BOOLEAN,
               post : BOOLEAN]
  /\ call = [c \in Calls |-> idle]
  /\ store = [k \in Chains |-> None]
  /\ threadEval = <<>>
  /\ msgs = <<>>
  /\ messages = <<>>
  /\ bindings = <<>>
  /\ uncaught = FALSE
  /\ status = None
  /\ tee = noTee
  /\ flusher = noFlusher
  /\ age = noAge
  /\ fn = noFn

NextTracer ==
  \/ Await
  \/ FuncResolve
  \/ FuncReject
  \/ DebounceFire
  \/ SendSuccess
  \/ SendFailure

TracerSpec == InitTracer /\ [][NextTracer]_vars

\* The threads and the manual producers of a monitor that is configured and
\* left at onlySendEvals: true.
InitThreads ==
  /\ configured = TRUE
  /\ onlySendEvals = TRUE
  /\ activeEval = None
  /\ threads = 0
  /\ queue = <<>>
  /\ running = FALSE
  /\ timer = FALSE
  /\ inflight = <<>>
  /\ clock = 1
  /\ log = <<>>
  /\ delivered = <<>>
  /\ failed = <<>>
  /\ lastOp = "init"
  /\ wrap = plainWrap
  /\ call = [c \in Calls |-> idle]
  /\ store = [k \in Chains |-> None]
  /\ threadEval = <<>>
  /\ msgs = <<>>
  /\ messages = <<>>
  /\ bindings = <<>>
  /\ uncaught = FALSE
  /\ status = None
  /\ tee = noTee
  /\ flusher = noFlusher
  /\ age = noAge
  /\ fn = noFn

OpenThreads == OpenThreadCall(MaxOpened, {None, 1, 2})

NextThreads ==
  \/ OpenThreads
  \/ TrackMessage
  \/ TrackToolCall
  \/ ErrorCall
  \/ DebounceFire
  \/ SendSuccess

ThreadSpec == InitThreads /\ [][NextThreads]_vars

\* Every producer on a monitor that lets nothing through: not configured, or
\* configured and left at onlySendEvals: true, and no thread is given an
\* evaluationId.
InitQuiet ==
  /\ configured \in BOOLEAN
  /\ onlySendEvals \in BOOLEAN
  /\ ~configured \/ onlySendEvals
  /\ activeEval = None
  /\ threads = 0
  /\ queue = <<>>
  /\ running = FALSE
  /\ timer = FALSE
  /\ inflight = <<>>
  /\ clock = 1
  /\ log = <<>>
  /\ delivered = <<>>
  /\ failed = <<>>
  /\ lastOp = "init"
  /\ wrap \in [type : {"tool"}, track : BOOLEAN, pre : BOOLEAN,
               post : BOOLEAN]
  /\ call = [c \in Calls |-> idle]
  /\ store = [k \in Chains |-> None]
  /\ threadEval = <<>>
  /\ msgs = <<>>
  /\ messages = <<>>
  /\ bindings = <<>>
  /\ uncaught = FALSE
  /\ status = None
  /\ tee = noTee
  /\ flusher = noFlusher
  /\ age = noAge
  /\ fn = noFn

OpenPlainThread == OpenThreadCall(MaxOpened, {None})

NextQuiet ==
  \/ OpenPlainThread
  \/ TrackEvent
  \/ TrackMessage
  \/ TrackToolCall
  \/ ErrorCall
  \/ Await
  \/ FuncResolve
  \/ FuncReject
  \/ Flush

QuietSpec == InitQuiet /\ [][NextQuiet]_vars

\* The pending values alone: the application reads their properties as
\* often as it likes.
NextProxy ==
  \/ Invoke
  \/ Reaccess
  \/ FuncResolve
  \/ FuncReject

ProxySpec == InitContext /\ [][NextProxy]_vars

----------------------------------------------------------------------------
\* Parenting and the run-id context.

\* The start events of invocation c
StartEvents(c) ==
  {i \in 1..Len(log) : log[i].event = "start" /\ log[i].runId = newRunId(c)}

\* C7: a traced call made from inside the execution of another traced call,
\* without setParent, has a start event whose parentRunId is the run id of
\* the outer call.
C7_NestedCallInheritsParent ==
  \A c \in Calls :
    (call[c].pc # "idle" /\ call[c].caller # None /\ call[c].parent = None)
    => \A i \in StartEvents(c) :
         log[i].parentRunId = newRunId(call[c].caller)

\* C8: with two unrelated traced calls a1 and a2 in progress at the same
\* time, a traced call b nested inside a1 (made after a2 began) is parented to
\* a1 and not to a2.
C8_NoCrosstalk ==
  \A a1 \in Calls, a2 \in Calls, b \in Calls :
    (/\ a1 # a2
     /\ call[a1].pc = "func" /\ call[a1].caller = None
     /\ call[a2].pc = "func" /\ call[a2].caller = None
     /\ a2 < b
     /\ call[b].pc # "idle" /\ call[b].caller = a1 /\ call[b].parent = None)
    => \A i \in StartEvents(b) :
         /\ log[i].parentRunId # newRunId(a2)
         /\ log[i].parentRunId = newRunId(a1)

\* C9: the start event of an invocation made with setParent(x) has
\* parentRunId = x, whatever run the invocation was made in; the start event
\* of an invocation made without setParent never has the x of another one.
C9_SetParentOwnCallOnly ==
  \A c \in Calls : \A i \in StartEvents(c) :
    IF call[c].parent # None
    THEN log[i].parentRunId = call[c].parent
    ELSE \A d \in Calls \ {c} :
           call[d].parent # None => log[i].parentRunId # call[d].parent

C9_Witness ==
  \E c \in Calls, d \in Calls :
    /\ c < d
    /\ call[c].caller # None /\ call[c].parent = ExternalRunId
    /\ call[d].caller = call[c].caller /\ call[d].parent = None
    /\ StartEvents(c) # {} /\ StartEvents(d) # {}

----------------------------------------------------------------------------
\* The queue and its transport.

\* C1: the pending queue lists the events in the order of the trackEvent
\* calls that appended them: it is the tail of the history of appends, so no
\* handler reorders queued events and trackEvent appends at the tail only.
C1_QueueInCallOrder ==
  /\ \E k \in 0..Len(log) : queue = slice(log, k)
  /\ \A i \in 1..Len(log) : log[i].n = i

C1_Witness ==
  /\ Len(queue) >= 2
  /\ Len(delivered) >= 1
  /\ running
  /\ lastOp = "trackEvent"

\* C2: each event in the queue has a timestamp strictly greater than the
\* timestamp of every event before it in the queue.
C2_StrictlyIncreasingTimestamps ==
  \A i \in 1..Len(queue) : \A j \in 1..Len(queue) :
    i < j => queue[i].timestamp < queue[j].timestamp

\* C3: at most one ingest request is in flight at any time, and running
\* tells whether one is.
C3_AtMostOneInFlight ==
  /\ Len(inflight) <= 1
  /\ running <=> Len(inflight) = 1

C3_Witness ==
  /\ Len(inflight) = 1
  /\ Len(queue) > MAX_CHUNK_SIZE
  /\ Len(queue) > Len(inflight[1])
  /\ lastOp = "flush"

\* C4: processQueue or flush invoked when the queue is empty or while a send
\* is in flight changes neither the queue nor the requests in flight.
C4_FlushNoOp ==
  [][(/\ lastOp' \in {"flush", "processQueue", "debounce"}
      /\ (queue = <<>> \/ running))
     => /\ queue' = queue
        /\ inflight' = inflight
        /\ running' = running
        /\ delivered' = delivered]_vars

C4_Witness ==
  /\ lastOp = "flush"
  /\ running
  /\ Len(inflight) = 1
  /\ Len(queue) > Len(inflight[1])

\* C5: when a send succeeds, exactly the events of its batch, which are the
\* head of the queue, are removed and delivered; the events appended
\* meanwhile stay in their order, and when there is one the next send starts
\* in the same step, with all of them as its batch.
C5_SuccessRemovesBatch ==
  [][lastOp' = "sendSuccess"
     => LET copy == inflight[1] IN
        /\ IsPrefix(copy, queue)
        /\ queue' = slice(queue, Len(copy))
        /\ delivered' = delivered \o copy
        /\ IF queue' # <<>>
           THEN running' /\ inflight' = <<queue'>>
           ELSE ~running' /\ inflight' = <<>>]_vars

C5_Witness ==
  /\ lastOp = "sendSuccess"
  /\ delivered # <<>>
  /\ queue # <<>>
  /\ inflight = <<queue>>

NoDuplicates(s) == \A i \in 1..Len(s) : \A j \in 1..Len(s) : s[i] = s[j] => i = j

\* C6: when a send fails the queue is what it was, the failed batch at its
\* head, and nothing is delivered; the next send that succeeds delivers a
\* batch that starts with the failed batch, and no event is delivered twice.
C6_FailureKeepsQueue ==
  [][/\ lastOp' = "sendFailure"
        => /\ queue' = queue
           /\ IsPrefix(inflight[1], queue')
           /\ failed' = inflight[1]
           /\ delivered' = delivered
     /\ lastOp' = "sendSuccess"
        => /\ IsPrefix(failed, inflight[1])
           /\ delivered' = delivered \o inflight[1]
           /\ NoDuplicates(delivered')
           /\ delivered' \o queue' = log']_vars

C6_Witness ==
  /\ lastOp = "sendFailure"
  /\ failed # <<>>
  /\ Len(queue) > Len(failed)
  /\ delivered # <<>>

----------------------------------------------------------------------------
\* The events of a run.

\* C11: every end or error event ever appended comes after a start event with
\* the same runId (events leave the queue from its head, so the start is then
\* ahead of it in the queue or was sent before it).
C11_StartBeforeEnd ==
  \A i \in 1..Len(log) :
    log[i].event \in {"end", "error"}
      => \E j \in 1..(i - 1) :
           log[j].event = "start" /\ log[j].runId = log[i].runId

\* The events of invocation c with the verb event
EventsOf(c, event) ==
  {i \in 1..Len(log) : log[i].runId = newRunId(c) /\ log[i].event = event}

\* C12: a call of a function wrapped by wrapTool that has resolved, with
\* tracking on, the configuration complete and the gate open, has appended
\* exactly one start event, of type tool, and exactly one end event, the
\* start first, and the end event's output is what the function returned.
C12_ToolCallStartThenEnd ==
  \A c \in Calls :
    /\ wrap.type = "tool" /\ wrap.track # FALSE
    /\ configured /\ shouldSendEvent
    /\ call[c].pc = "done"
    => /\ Cardinality(EventsOf(c, "start")) = 1
       /\ Cardinality(EventsOf(c, "end")) = 1
       /\ \A i \in EventsOf(c, "start") : \A j \in EventsOf(c, "end") :
            /\ i < j
            /\ log[i].type = "tool"
            /\ log[j].type = "tool"
            /\ log[j].output = call[c].ret

----------------------------------------------------------------------------
\* The input of the start event.

\* args[i - 1], and undefined past the end
arg(args, i) == IF i <= Len(args) THEN args[i] ELSE None

\* What the claim takes getFunctionInput for: an object in every case.
getFunctionInput_alwaysObject(argNames, args) ==
  [obj |-> TRUE,
   val |-> [name \in {argNames[i] : i \in 1..Len(argNames)} |->
              arg(args, CHOOSE i \in 1..Len(argNames) :
                          /\ argNames[i] = name
                          /\ \A j \in 1..Len(argNames) :
                               argNames[j] = name => j <= i)]]

\* getFunctionInput, given the names getArgumentNames reads off the function
getFunctionInput(argNames, args) ==
  IF Len(argNames) = 1
  THEN bare(arg(args, 1))
  ELSE [obj |-> TRUE,
        val |-> [name \in {argNames[i] : i \in 1..Len(argNames)} |->
                   arg(args, CHOOSE i \in 1..Len(argNames) :
                               /\ argNames[i] = name
                               /\ \A j \in 1..Len(argNames) :
                                    argNames[j] = name => j <= i)]]

\* The parameter lists of the functions wrapped, and the argument lists of
\* their calls; an argument stands for any value, an object as well.
ParamNames == {"q", "k"}

ArgValues == {None, 1, 2}

SeqsUpTo(S, n) == UNION {[1..m -> S] : m \in 0..n}

ParamLists ==
  {l \in SeqsUpTo(ParamNames, MaxArgs) :
     \A i \in 1..Len(l) : \A j \in 1..Len(l) : l[i] = l[j] => i = j}

InitInput ==
  /\ configured = TRUE
  /\ onlySendEvals = FALSE
  /\ activeEval = None
  /\ threads = 0
  /\ queue = <<>>
  /\ running = FALSE
  /\ timer = FALSE
  /\ inflight = <<>>
  /\ clock = 1
  /\ log = <<>>
  /\ delivered = <<>>
  /\ failed = <<>>
  /\ lastOp = "init"
  /\ wrap = plainWrap
  /\ call = [c \in Calls |-> idle]
  /\ store = [k \in Chains |-> None]
  /\ threadEval = <<>>
  /\ msgs = <<>>
  /\ messages = <<>>
  /\ bindings = <<>>
  /\ uncaught = FALSE
  /\ status = None
  /\ tee = noTee
  /\ flusher = noFlusher
  /\ age = noAge
  /\ \E l \in ParamLists, a \in SeqsUpTo(ArgValues, MaxArgs) :
       fn = [noFn EXCEPT !.argNames = l, !.args = a]

\* executeWrappedFunction derives the input of the start event; no
\* inputParser is given.
StartInput ==
  /\ ~fn.has
  /\ fn' = [fn EXCEPT !.input = getFunctionInput(fn.argNames, fn.args),
                      !.has = TRUE]
  /\ lastOp' = "input"
  /\ UNCHANGED <<config, queue, running, timer, inflight, clock, log,
                 delivered, failed, uncaught,
                 status, tracer, threadEval, msgs, messages,
                 bindings,
                 tee, flusher, age>>

InputSpec == InitInput /\ [][StartInput]_vars

----------------------------------------------------------------------------
\* The pending value.

\* C14: the wrapped function is invoked once per wrappedFn call at most,
\* however many properties of the pending value are read.
C14_InvokedOncePerCall ==
  \A c \in Calls : \A d \in Calls :
    /\ call[c].pc \in {"func", "done", "thrown"}
    /\ call[d].pc \in {"func", "done", "thrown"}
    /\ call[c].proxy = call[d].proxy
    => c = d

----------------------------------------------------------------------------
\* The gate and the configuration.

\* No thread has an evaluationId, and none is the active one.
NoBinding ==
  /\ activeEval = None
  /\ \A t \in 1..Len(threadEval) : threadEval[t] = None

\* C15: on a monitor left at onlySendEvals: true on which no thread has an
\* evaluationId, whatever trackEvent, trackMessage, trackToolCall, error and
\* wrapped calls are made, no event has been appended to the queue and no
\* request has been issued or is scheduled.
C15_ClosedGateDropsAll ==
  onlySendEvals /\ NoBinding
    => /\ log = <<>>
       /\ queue = <<>>
       /\ inflight = <<>>
       /\ ~running
       /\ ~timer

C15_Witness ==
  /\ configured
  /\ onlySendEvals
  /\ threads > 0
  /\ msgs # <<>>
  /\ call[1].pc = "done"
  /\ wrap.track # FALSE /\ ~wrap.pre /\ ~wrap.post
  /\ lastOp = "trackToolCall"

----------------------------------------------------------------------------
\* The Thread that remembers its messages (src/unnamed/part_003), on the
\* monitor whose gate reads the ambient evaluation binding
\* (src/unnamed/part_004:252-255).  activeEval stands for that binding here:
\* context.evaluation is a store that holds the value last set.

\* this.evaluationId of that Thread: no line of the class assigns it.
rememberingThreadEvaluationId == None

RECURSIVE emitRemembered(_, _, _)
\* this.messages.forEach(...) in setEvaluationId; the gate sees the binding
\* that was set the line before.
emitRemembered(s, ids, ev) ==
  IF ids = <<>> THEN s
  ELSE emitRemembered(
         trackEventWhen(~onlySendEvals \/ ev # None, s, "thread", "chat",
                        [runId |-> Head(ids), parentRunId |-> threadId(1),
                         evaluationId |-> ev]),
         Tail(ids), ev)

\* Thread.trackMessage of that Thread
RememberMessage ==
  /\ Len(messages) < MaxMessages
  /\ LET runId == 400 + Len(messages) + 1 IN
     /\ messages' = Append(messages, runId)
     /\ IF ~onlySendEvals \/ rememberingThreadEvaluationId # None
        THEN SetQ(trackEvent(Q, "thread", "chat",
                             [runId |-> runId, parentRunId |-> threadId(1),
                              evaluationId |->
                                rememberingThreadEvaluationId]))
        ELSE SetQ(Q)
  /\ lastOp' = "trackMessage"
  /\ UNCHANGED <<config, clock, tracer, threadEval, msgs, bindings, fn,
                 tee, flusher, age>>

\* Thread.setEvaluationId
SetEvaluationId ==
  \E ev \in {1, 2} :
    /\ Len(bindings) < MaxBindings
    /\ bindings' = Append(bindings, [id |-> ev, at |-> Len(messages)])
    /\ activeEval' = ev
    /\ IF onlySendEvals /\ Len(messages) > 0
       THEN SetQ(emitRemembered(Q, messages, ev))
       ELSE SetQ(Q)
    /\ lastOp' = "setEvaluationId"
    /\ UNCHANGED <<configured, onlySendEvals, threads, clock, tracer,
                   threadEval, msgs, messages, fn,
                 tee, flusher, age>>

\* One such thread, opened without an evaluationId, on a monitor that is
\* configured and left at onlySendEvals: true.
InitRemember ==
  /\ configured = TRUE
  /\ onlySendEvals = TRUE
  /\ activeEval = None
  /\ threads = 1
  /\ queue = <<>>
  /\ running = FALSE
  /\ timer = FALSE
  /\ inflight = <<>>
  /\ clock = 1
  /\ log = <<>>
  /\ delivered = <<>>
  /\ failed = <<>>
  /\ lastOp = "openThread"
  /\ wrap = plainWrap
  /\ call = [c \in Calls |-> idle]
  /\ store = [k \in Chains |-> None]
  /\ threadEval = <<>>
  /\ msgs = <<>>
  /\ messages = <<>>
  /\ bindings = <<>>
  /\ uncaught = FALSE
  /\ status = None
  /\ tee = noTee
  /\ flusher = noFlusher
  /\ age = noAge
  /\ fn = noFn

NextRemember ==
  \/ RememberMessage
  \/ SetEvaluationId
  \/ DebounceFire
  \/ SendSuccess
  \/ SendFailure

RememberSpec == InitRemember /\ [][NextRemember]_vars

\* The chat events of the message with this runId
ChatEvents(runId) ==
  {i \in 1..Len(log) : log[i].event = "chat" /\ log[i].runId = runId}

\* C16: once an evaluation id has been bound, each message tracked before
\* the first binding has exactly one chat event, these events are in the
\* order of the messages, and this stays so whatever is bound or tracked
\* later.
C16_RememberedMessagesOnce ==
  bindings # <<>>
    => /\ \A k \in 1..bindings[1].at :
            Cardinality(ChatEvents(messages[k])) = 1
       /\ \A k \in 1..bindings[1].at : \A l \in 1..bindings[1].at :
            k < l => \A i \in ChatEvents(messages[k]) :
                       \A j \in ChatEvents(messages[l]) : i < j

----------------------------------------------------------------------------
\* Threads side by side.

\* C17: on a configured monitor left at onlySendEvals: true, every
\* trackMessage call made on a thread that has an evaluationId has appended
\* exactly one chat event, whose runId is the id the call returned and whose
\* parentRunId is the id of that thread, whatever other threads were opened.
C17_BoundThreadMessageEnqueued ==
  \A k \in 1..Len(msgs) :
    threadEval[msgs[k].thread] # None
      => Cardinality({i \in 1..Len(log) :
                        /\ log[i].event = "chat"
                        /\ log[i].runId = msgs[k].runId
                        /\ log[i].parentRunId = threadId(msgs[k].thread)})
           = 1

\* C18: on a monitor whose appId, apiKey or apiUrl is missing, whatever
\* tracking operations are made, nothing has been queued and no request has
\* been issued or is scheduled, and every wrapped call has run its function
\* and handed its caller what the function gave: its result when it
\* resolved, its error when it threw.
C18_UnconfiguredSilent ==
  ~configured
    => /\ log = <<>> /\ queue = <<>>
       /\ inflight = <<>> /\ ~running /\ ~timer
       /\ \A c \in Calls :
            /\ call[c].pc # "skipped"
            /\ call[c].pc = "done" => call[c].outcome = "result"
            /\ call[c].pc = "thrown" => call[c].outcome = "error"

----------------------------------------------------------------------------
\* What the caller of a wrapped function gets.

\* C19: when the function of a wrapped call has thrown and tracking is on,
\* exactly one error event with the call's runId has been appended, by the
\* time the caller gets the error at the latest, and the caller gets the
\* function's error and nothing else.
C19_ErrorEventForThrow ==
  \A c \in Calls :
    wrap.track # FALSE /\ call[c].pc = "thrown"
      => /\ Cardinality(EventsOf(c, "error")) = 1
         /\ call[c].outcome \in {"pending", "error"}
         /\ call[c].outcome = "pending" => call[c].next = "error"

\* C19 as it holds: the caller gets the function's error and nothing else;
\* on a monitor whose configuration is complete and whose gate is open
\* exactly one error event with the call's runId, of the type of the wrapper,
\* has been appended by then, and on any other monitor none.
C19_ErrorEventWhenOpen ==
  \A c \in Calls :
    wrap.track # FALSE /\ call[c].pc = "thrown"
      => /\ call[c].outcome \in {"pending", "error"}
         /\ call[c].outcome = "pending" => call[c].next = "error"
         /\ IF configured /\ shouldSendEvent
            THEN /\ Cardinality(EventsOf(c, "error")) = 1
                 /\ \A i \in EventsOf(c, "error") : log[i].type = wrap.type
            ELSE EventsOf(c, "error") = {}

\* The request that the catch block issued has settled and the caller has
\* the error.
C19_Witness ==
  /\ configured /\ shouldSendEvent
  /\ wrap.track # FALSE
  /\ call[1].pc = "thrown"
  /\ call[1].outcome = "error"
  /\ Cardinality(EventsOf(1, "error")) = 1
  /\ lastOp = "sendSuccess"

\* C20: every wrapped call invokes its function, and what its caller gets, or
\* is going to get once the request it awaits has settled, is what the
\* function gave: its result when it resolved, its error when it threw,
\* whatever the parsers, the gate, the queue and the transport do.
C20_TracingNeverInterferes ==
  \A c \in Calls :
    /\ call[c].pc # "skipped"
    /\ call[c].pc = "done"
         => call[c].outcome \in {"pending", "result"}
            /\ call[c].next \in {"none", "result"}
    /\ call[c].pc = "thrown"
         => call[c].outcome \in {"pending", "error"}
            /\ call[c].next \in {"none", "error"}

----------------------------------------------------------------------------
\* Failures of the transport.

\* C21: when an ingest request fails, the failure stays inside processQueue:
\* no caller of processQueue, flush or trackEvent gets it, a wrapped call
\* that awaited the request goes on to hand its caller what it was going to,
\* and a wrapped call whose function resolved has handed its caller the
\* function's result and keeps to that.
C21_FailedSendUnobserved ==
  [][lastOp' = "sendFailure"
     => /\ ~uncaught'
        /\ \A c \in Calls :
             /\ call[c].next # "none" => call'[c].outcome = call[c].next
             /\ call[c].next = "none" => call'[c] = call[c]
             /\ call[c].pc = "done" /\ ~wrap.post
                  => call'[c].outcome = "result"]_vars

\* The request that carried the end event of a resolved call has failed.
C21_Witness ==
  /\ lastOp = "sendFailure"
  /\ call[1].pc = "done"
  /\ call[1].outcome = "result"
  /\ \E i \in 1..Len(failed) :
       failed[i].event = "end" /\ failed[i].runId = newRunId(1)

----------------------------------------------------------------------------
\* teeAsync: a stream forked in two.

Forks == {1, 2}

\* i ^ 1, for forks counted from 1
otherFork(i) == 3 - i

\* The result of an async generator's next(): { done, value }
yielded(v) == [done |-> FALSE, value |-> v]
finished == [done |-> TRUE, value |-> None]

\* The k-th next() of the source: its requests are served in the order they
\* were made, the elements are 1..size, and then it is done.
sourceResult(t, k) ==
  IF k <= t.size /\ t.returned = 0 THEN yielded(k) ELSE finished

\* A next() that keeps what it pulled to itself.
teeNext_keeps(t, i) ==
  IF ~t.open[i]
  THEN [t EXCEPT !.got[i] = Append(@, finished)]
  ELSE IF t.buffers[i] # <<>>
       THEN [t EXCEPT !.got[i] = Append(@, Head(t.buffers[i])),
                      !.buffers[i] = Tail(@)]
       ELSE [t EXCEPT !.pulled = @ + 1,
                      !.got[i] = Append(@, sourceResult(t, t.pulled + 1))]

\* next() of fork i
teeNext(t, i) ==
  IF ~t.open[i]
  THEN [t EXCEPT !.got[i] = Append(@, finished)]
  ELSE IF t.buffers[i] # <<>>
       THEN [t EXCEPT !.got[i] = Append(@, Head(t.buffers[i])),
                      !.buffers[i] = Tail(@)]
       ELSE LET res == sourceResult(t, t.pulled + 1)
            IN [t EXCEPT !.pulled = @ + 1,
                         !.buffers[otherFork(i)] =
                            IF t.open[otherFork(i)] THEN Append(@, res) ELSE @,
                         !.got[i] = Append(@, res)]

\* A return() that closes the source whatever the other fork does.
teeReturn_closesSource(t, i) ==
  IF t.open[i]
  THEN [t EXCEPT !.open[i] = FALSE, !.buffers[i] = <<>>,
                 !.returned = @ + 1]
  ELSE t

\* return() of fork i
teeReturn(t, i) ==
  IF t.open[i]
  THEN [t EXCEPT !.open[i] = FALSE, !.buffers[i] = <<>>,
                 !.returned = IF ~t.open[otherFork(i)] THEN @ + 1 ELSE @]
  ELSE t

notTee == <<config, queue, running, timer, inflight, clock, log, delivered,
            failed, uncaught, status, wrap, call, store, threadEval, msgs,
            messages, bindings, fn, flusher, age>>

\* A consumer asks fork i for its next element.
TeeNextOf(i) ==
  /\ Len(tee.got[i]) < MaxNexts
  /\ tee' = teeNext(tee, i)
  /\ lastOp' = "next"
  /\ UNCHANGED notTee

TeeNext == \E i \in Forks : TeeNextOf(i)

\* A consumer closes fork i.
TeeReturnOf(i) ==
  /\ tee' = teeReturn(tee, i)
  /\ lastOp' = "return"
  /\ UNCHANGED notTee

TeeReturn == \E i \in Forks : TeeReturnOf(i)

\* A stream of up to MaxTokens elements has just been forked.
InitTee ==
  /\ configured = TRUE
  /\ onlySendEvals = FALSE
  /\ activeEval = None
  /\ threads = 0
  /\ queue = <<>>
  /\ running = FALSE
  /\ timer = FALSE
  /\ inflight = <<>>
  /\ clock = 1
  /\ log = <<>>
  /\ delivered = <<>>
  /\ failed = <<>>
  /\ lastOp = "init"
  /\ wrap = plainWrap
  /\ call = [c \in Calls |-> idle]
  /\ store = [k \in Chains |-> None]
  /\ threadEval = <<>>
  /\ msgs = <<>>
  /\ messages = <<>>
  /\ bindings = <<>>
  /\ uncaught = FALSE
  /\ status = None
  /\ \E n \in 0..MaxTokens : tee = [noTee EXCEPT !.size = n]
  /\ flusher = noFlusher
  /\ age = noAge
  /\ fn = noFn

NextTee == TeeNext \/ TeeReturn

TeeSpec == InitTee /\ [][NextTee]_vars

\* The first n results of the source when nobody closes it
sourcePrefix(t, n) ==
  [k \in 1..n |-> IF k <= t.size THEN yielded(k) ELSE finished]

\* C22: while both forks of a stream are open, what each fork has handed out
\* is the beginning of the source, every element once and in the source's
\* order and then done, however the next() calls of the two interleave.
C22_EachForkYieldsTheSource ==
  tee.open[1] /\ tee.open[2]
    => \A i \in Forks : tee.got[i] = sourcePrefix(tee, Len(tee.got[i]))

\* Both forks have handed out a whole stream and its end, one of them from
\* its buffer.
C22_Witness ==
  /\ tee.open[1] /\ tee.open[2]
  /\ tee.size >= 2
  /\ tee.pulled = tee.size + 1
  /\ \A i \in Forks : Len(tee.got[i]) = tee.size + 1

\* C23: while one fork is closed and the other is open, the open fork goes
\* on handing out the source, every element and then done, and the source
\* has not been closed; return() has been called on the source once when
\* both forks are closed, and never more than once.
C23_ClosedForkLeavesOther ==
  /\ tee.returned <= 1
  /\ (tee.returned = 1) = (~tee.open[1] /\ ~tee.open[2])
  /\ \A i \in Forks :
       tee.open[i] /\ ~tee.open[otherFork(i)]
         => tee.got[i] = sourcePrefix(tee, Len(tee.got[i]))

\* One fork was closed before it had handed out anything, and the other has
\* handed out the whole stream and its end since.
C23_Witness ==
  \E i \in Forks :
    /\ ~tee.open[otherFork(i)]
    /\ tee.got[otherFork(i)] = <<>>
    /\ tee.open[i]
    /\ tee.size >= 2
    /\ Len(tee.got[i]) = tee.size + 1
    /\ tee.returned = 0

----------------------------------------------------------------------------
\* flush() awaited by the application.

\* The delay of one poll of flush(), and the polls it makes at most
POLL_MS == 100
MAX_POLLS == 10

\* The loop of flush() while a request is in flight: wait(POLL_MS) is called
\* and its promise dropped, so the loop never yields, running cannot change
\* under it, and it counts to MAX_POLLS and leaves with no time gone by.
flushPolled(s) == [polls |-> MAX_POLLS, slept |-> 0, running |-> s.running]

\* The application calls flush() and awaits it.
FlushAwaited ==
  /\ flusher.pc # "awaiting"
  /\ SetQ(flush(Q))
  /\ flusher' =
       IF ~running
       THEN [pc |-> IF Len(flush(Q).inflight) > Len(inflight)
                    THEN "awaiting" ELSE "returned",
             during |-> FALSE, slept |-> 0]
       ELSE [pc |-> "returned", during |-> flushPolled(Q).running,
             slept |-> flushPolled(Q).slept]
  /\ lastOp' = "flush"
  /\ UNCHANGED <<config, clock, tracer, threadEval, msgs, messages, bindings,
                 fn, tee, age>>

\* A configured client that sends every event.
InitFlush ==
  /\ configured = TRUE
  /\ onlySendEvals = FALSE
  /\ activeEval = None
  /\ threads = 0
  /\ queue = <<>>
  /\ running = FALSE
  /\ timer = FALSE
  /\ inflight = <<>>
  /\ clock = 1
  /\ log = <<>>
  /\ delivered = <<>>
  /\ failed = <<>>
  /\ lastOp = "init"
  /\ wrap = plainWrap
  /\ call = [c \in Calls |-> idle]
  /\ store = [k \in Chains |-> None]
  /\ threadEval = <<>>
  /\ msgs = <<>>
  /\ messages = <<>>
  /\ bindings = <<>>
  /\ uncaught = FALSE
  /\ status = None
  /\ tee = noTee
  /\ flusher = noFlusher
  /\ age = noAge
  /\ fn = noFn

NextFlush ==
  \/ TrackEvent
  \/ DebounceFire
  \/ FlushAwaited
  \/ SendSuccess
  \/ SendFailure

FlushSpec == InitFlush /\ [][NextFlush]_vars

\* C24: a flush() has returned only after the request that was in flight when
\* it was called has settled or MAX_POLLS delays of POLL_MS have gone by; a
\* flush() called with no request in flight has returned only after the
\* request it started has settled.
C24_FlushWaitsForSend ==
  /\ flusher.pc = "returned" /\ flusher.during
       => flusher.slept >= MAX_POLLS * POLL_MS
  /\ flusher.pc = "awaiting" => running

\* A flush() called while a request was in flight has returned with the
\* request still in flight and no time gone by.
C24_FlushReturnedAtOnce ==
  /\ lastOp = "flush"
  /\ flusher.pc = "returned"
  /\ flusher.during
  /\ flusher.slept = 0
  /\ running
  /\ inflight # <<>>

----------------------------------------------------------------------------
\* The two ways a trackEvent gets its event sent.

\* C25: a trackEvent that appends an event does one of two things and never
\* both: when the queue is longer than MAX_CHUNK_SIZE after the append it
\* calls processQueue at once (which starts a request with the whole queue
\* unless one is in flight) and leaves the debounce timer as it was; otherwise
\* it sets the debounce timer and starts no request.
C25_ImmediateOrDebounced ==
  [][lastOp' = "trackEvent" /\ Len(log') > Len(log)
     => IF Len(queue') > MAX_CHUNK_SIZE
        THEN /\ timer' = timer
             /\ running'
             /\ inflight' = IF running THEN inflight
                            ELSE Append(inflight, queue')
        ELSE /\ timer'
             /\ running' = running
             /\ inflight' = inflight]_vars

\* The event that made the queue longer than MAX_CHUNK_SIZE was appended with
\* no timer set and no request in flight: the request went out at once and no
\* timer was set.
C25_Witness ==
  /\ lastOp = "trackEvent"
  /\ Len(queue) = MAX_CHUNK_SIZE + 1
  /\ inflight = <<queue>>
  /\ running
  /\ ~timer

----------------------------------------------------------------------------
\* The debounce timer against the clock.

\* utils debounce: the default of its timeout parameter
timeout == 500

\* The time that goes by in one step of the clock
quantum == timeout \div MaxSteps

\* An age after d more time units; ages are not told apart past the timeout.
older(a, d) == IF a + d >= timeout THEN timeout ELSE a + d

\* The timer set by debounce is due.
due == timer /\ age.timer >= timeout

\* Time goes by, unless a timer is due: a due timer fires first.
TimePasses ==
  /\ ~due
  /\ age' = [enqueue |-> older(age.enqueue, quantum),
             timer |-> older(age.timer, quantum)]
  /\ lastOp' = "tick"
  /\ UNCHANGED <<config, queue, running, timer, inflight, clock, log,
                 delivered, failed, uncaught, status, tracer, threadEval,
                 msgs, messages, bindings, fn, tee, flusher>>

\* A call of trackEvent at the present time: the push is an enqueue, and the
\* call of debouncedProcessQueue, when it is made, clears the timeout and sets
\* a new one.
TrackEventTimed ==
  /\ Len(log) < MaxBurst
  /\ LET t == trackEvent(Q, "log", "info",
                         [runId |-> None, parentRunId |-> None,
                          evaluationId |-> None])
     IN /\ SetQ(t)
        /\ age' = [enqueue |-> IF Len(t.log) > Len(log) THEN 0
                               ELSE age.enqueue,
                   timer |-> IF Len(t.log) > Len(log)
                                /\ Len(t.queue) <= MAX_CHUNK_SIZE
                             THEN 0 ELSE age.timer]
  /\ lastOp' = "trackEvent"
  /\ UNCHANGED <<config, clock, tracer, threadEval, msgs, messages, bindings,
                 fn, tee, flusher>>

\* The timeout set by debounce expires and the function runs.
DebounceExpires ==
  /\ due
  /\ SetQ(processQueue([Q EXCEPT !.timer = FALSE]))
  /\ lastOp' = "debounce"
  /\ UNCHANGED <<config, clock, tracer, more>>

NextDebounce ==
  \/ TrackEventTimed
  \/ TimePasses
  \/ DebounceExpires
  \/ SendSuccess

DebounceSpec == InitFlush /\ [][NextDebounce]_vars

\* C26: when the debounced flush fires, no event has been enqueued for the
\* quiet period of 500 time units.
C26_FiresAfterQuietPeriod ==
  lastOp = "debounce" => age.enqueue >= timeout

\* The debounced flush has fired less than the quiet period after an event
\* was enqueued.
C26_FiredEarly ==
  /\ lastOp = "debounce"
  /\ age.enqueue < timeout
  /\ Len(log) > MAX_CHUNK_SIZE

\* While the queue stays within MAX_CHUNK_SIZE every enqueue sets the timer
\* anew.
C26_ShortBurstFiresAfterQuiet ==
  lastOp = "debounce" /\ Len(log) <= MAX_CHUNK_SIZE
    => age.enqueue >= timeout

----------------------------------------------------------------------------
\* The flush forced by a failure of the wrapped function.

\* The request that the step starts, if it starts one, carries the error
\* event of invocation c.
errorSendStarted(c) ==
  /\ Len(inflight') = Len(inflight) + 1
  /\ \E k \in 1..Len(inflight'[Len(inflight')]) :
       /\ inflight'[Len(inflight')][k].event = "error"
       /\ inflight'[Len(inflight')][k].runId = newRunId(c)

\* C27: when the wrapped function throws and the error event of the run is
\* enqueued, the catch block starts a request that carries the queue with
\* that error event, and the error is thrown on to the caller after it.
C27_ErrorForcesSend ==
  [][\A c \in Calls :
       /\ lastOp' = "reject"
       /\ call[c].pc = "func" /\ call'[c].pc = "thrown"
       /\ wrap.track
       /\ Len(log') > Len(log)
       => errorSendStarted(c) /\ call'[c].next = "error"]_vars

\* The function has thrown while a request was in flight: the error event
\* is in the queue, no request carries it, and the caller has the error.
C27_ErrorLeftInQueue ==
  /\ lastOp = "reject"
  /\ call[1].pc = "thrown"
  /\ call[1].outcome = "error"
  /\ running
  /\ \E k \in 1..Len(queue) : queue[k].event = "error"
  /\ \A i \in 1..Len(inflight) :
       \A k \in 1..Len(inflight[i]) : inflight[i][k].event # "error"

\* With no request in flight the catch block does start the request.
C27_ErrorForcesSendWhenIdle ==
  [][\A c \in Calls :
       /\ lastOp' = "reject"
       /\ call[c].pc = "func" /\ call'[c].pc = "thrown"
       /\ wrap.track
       /\ Len(log') > Len(log)
       /\ ~running
       => errorSendStarted(c) /\ call'[c].next = "error"]_vars

----------------------------------------------------------------------------
\* The streaming path of executeWrappedFunction, with the waitUntil of
\* observeOpenAI: the stream is forked, the caller gets fork og and
\* handleStream reads fork copy to its end.

og == 1
copy == 2

\* Fork i has handed out the end of the stream.
exhausted(t, i) ==
  t.got[i] # <<>> /\ t.got[i][Len(t.got[i])].done

\* handleStream: the chunks it has put together
chunksOf(t) == Cardinality({k \in 1..Len(t.got[copy]) : ~t.got[copy][k].done})

\* processOutput(res) as the streaming path calls it: shouldWaitUntil is
\* set, so the end event is followed by `await this.flush()`.  A parser
\* that throws ends it before the event, in a promise nobody awaits.
processOutputStreamed(s, c, target, res) ==
  IF wrap.post
  THEN [s EXCEPT !.uncaught = TRUE]
  ELSE flush(trackEvent(s, wrap.type, "end",
                        [runId |-> newRunId(c),
                         parentRunId |-> eventParentRunId(target, c),
                         evaluationId |-> None,
                         output |-> res]))

\* The function of invocation c resolves with a stream: waitUntil forks it,
\* starts handleStream on one fork and returns the other, which
\* executeWrappedFunction returns.
StreamResolve ==
  \E c \in Calls :
    /\ call[c].pc = "func"
    /\ call' = [call EXCEPT ![c].pc = "streaming", ![c].ret = returnValue(c),
                            ![c].outcome = "result"]
    /\ lastOp' = "stream"
    /\ UNCHANGED <<config, queue, running, timer, inflight, clock, log,
                   delivered, failed, uncaught, status, wrap, store, more>>

\* The caller reads the stream it was given.
CallerNext ==
  /\ \E c \in Calls : call[c].pc \in {"streaming", "done"} /\ call[c].ret # None
  /\ TeeNextOf(og)

\* The caller leaves the stream it was given.
CallerReturn ==
  /\ \E c \in Calls : call[c].pc \in {"streaming", "done"} /\ call[c].ret # None
  /\ TeeReturnOf(og)

\* handleStream: one round of its for await.
HandleStreamNext ==
  /\ \E c \in Calls : call[c].pc = "streaming"
  /\ ~exhausted(tee, copy)
  /\ TeeNextOf(copy)

\* handleStream after its loop: onComplete(res), which is processOutput.
HandleStreamComplete ==
  \E c \in Calls :
    /\ call[c].pc = "streaming"
    /\ exhausted(tee, copy)
    /\ SetQ(processOutputStreamed(Q, c, [_parentRunId |-> call[c].parent],
                                  chunksOf(tee)))
    /\ call' = [call EXCEPT ![c].pc = "done"]
    /\ lastOp' = "complete"
    /\ UNCHANGED <<config, clock, wrap, store, more>>

\* A model wrapped with enableWaitUntil and waitUntil, called with
\* stream: true, on a configured monitor.
InitStream ==
  /\ configured = TRUE
  /\ onlySendEvals \in BOOLEAN
  /\ activeEval = None
  /\ threads = 0
  /\ queue = <<>>
  /\ running = FALSE
  /\ timer = FALSE
  /\ inflight = <<>>
  /\ clock = 1
  /\ log = <<>>
  /\ delivered = <<>>
  /\ failed = <<>>
  /\ lastOp = "init"
  /\ wrap \in [type : {"llm"}, track : BOOLEAN, pre : {FALSE},
               post : BOOLEAN]
  /\ call = [c \in Calls |-> idle]
  /\ store = [k \in Chains |-> None]
  /\ threadEval = <<>>
  /\ msgs = <<>>
  /\ messages = <<>>
  /\ bindings = <<>>
  /\ uncaught = FALSE
  /\ status = None
  /\ \E n \in 0..MaxTokens : tee = [noTee EXCEPT !.size = n]
  /\ flusher = noFlusher
  /\ age = noAge
  /\ fn = noFn

NextStream ==
  \/ Await
  \/ StreamResolve
  \/ CallerNext
  \/ CallerReturn
  \/ HandleStreamNext
  \/ HandleStreamComplete
  \/ DebounceFire
  \/ SendSuccess

StreamSpec == InitStream /\ [][NextStream]_vars

\* The caller is given the stream before handleStream has read any of it.
C28_StreamReturnedAtOnce ==
  [][lastOp' = "stream"
     => \E c \in Calls : /\ call'[c].outcome = "result"
                         /\ call'[c].pc = "streaming"
                         /\ tee'.got[copy] = <<>>]_vars

\* An end event is enqueued only when the background fork is exhausted, and
\* once for a run.
C28_EndOnlyAfterExhausted ==
  [][\A c \in Calls :
       Len(log') > Len(log) /\ log'[Len(log')].event = "end"
       /\ log'[Len(log')].runId = newRunId(c)
       => /\ exhausted(tee, copy)
          /\ EventsOf(c, "end") = {}]_vars

\* C28: when the background fork of a streamed run is exhausted, on a
\* configured monitor whose gate is open, the end event of the run is
\* enqueued, once, and a request that carries it is started in the same
\* step.
C28_StreamEndFlushed ==
  [][\A c \in Calls :
       /\ lastOp' = "complete"
       /\ call[c].pc = "streaming"
       /\ configured /\ ~onlySendEvals
       => /\ Len(log') = Len(log) + 1
          /\ log'[Len(log')].event = "end"
          /\ log'[Len(log')].runId = newRunId(c)
          /\ Len(inflight') = Len(inflight) + 1
          /\ \E k \in 1..Len(inflight'[Len(inflight')]) :
               inflight'[Len(inflight')][k] = log'[Len(log')]]_vars

\* The end event of a streamed run was enqueued while a request was in
\* flight: it is in the queue and no request carries it.
C28_EndLeftInQueue ==
  /\ lastOp = "complete"
  /\ running
  /\ \E k \in 1..Len(queue) : queue[k].event = "end"
  /\ \A i \in 1..Len(inflight) :
       \A k \in 1..Len(inflight[i]) : inflight[i][k].event # "end"

\* The background fork of a streamed run was exhausted and no end event was
\* enqueued: a parser threw in processOutput.
C28_EndNeverEnqueued ==
  /\ lastOp = "complete"
  /\ ~onlySendEvals
  /\ uncaught
  /\ \A k \in 1..Len(log) : log[k].event # "end"

----------------------------------------------------------------------------
\* The response of the ingest endpoint.

\* The statuses of a response: OK, and an HTTP error
Statuses == {200, 500}

\* The ingest request i gets a response of either status.
SendAnswered == SendResponse(Statuses)

NextResponse ==
  \/ TrackEvent
  \/ DebounceFire
  \/ Flush
  \/ SendAnswered
  \/ SendFailure

ResponseSpec == InitFlush /\ [][NextResponse]_vars

\* C29: when the ingest request gets a response, whatever its status, the
\* batch it carried is cut off the head of the queue and counts as sent;
\* when the request throws or rejects the queue is left as it is.
C29_AnyResponseIsSuccess ==
  [][/\ lastOp' = "sendSuccess"
        => /\ status' \in Statuses
           /\ \E i \in 1..Len(inflight) :
                /\ IsPrefix(inflight[i], queue)
                /\ queue' = slice(queue, Len(inflight[i]))
                /\ delivered' = delivered \o inflight[i]
     /\ lastOp' = "sendFailure"
        => /\ queue' = queue
           /\ delivered' = delivered
           /\ \E i \in 1..Len(inflight) : failed' = inflight[i]]_vars

\* A request was answered with an HTTP error and its batch is gone from the
\* queue.
C29_Witness ==
  /\ lastOp = "sendSuccess"
  /\ status = 500
  /\ delivered # <<>>
  /\ queue = <<>>
  /\ ~running

----------------------------------------------------------------------------
\* What sends the queue again after a request has failed.

\* The step starts a request.
sendStarted == Len(inflight') > Len(inflight)

\* C30, as the specification has it: right after a request has failed, with
\* no trackEvent since, a request is started only by a trackEvent or by a
\* flush.
C30_RetryOnlyByTrackEventOrFlush ==
  [][lastOp = "sendFailure" /\ sendStarted
     => lastOp' \in {"trackEvent", "flush"}]_vars

\* C30: the failure of a request clears the in-flight flag, leaves the queue
\* as it is and neither sets nor clears a timer; after it the queue is sent
\* again only by a trackEvent, by the debounce timer (which a trackEvent
\* before the failure may have set) or by a flush, and that request's batch
\* starts with the first event of the batch that failed.
C30_NoRetryOfItsOwn ==
  [][/\ lastOp' = "sendFailure"
        => /\ ~running'
           /\ timer' = timer
           /\ queue' = queue
           /\ Len(inflight') = Len(inflight) - 1
     /\ failed # <<>> /\ sendStarted
        => /\ lastOp' \in {"trackEvent", "debounce", "flush"}
           /\ Head(inflight'[Len(inflight')]) = Head(failed)]_vars

\* A request failed, and the timer that a trackEvent before the failure had
\* set has fired and sent the same events again.
C30_Witness ==
  /\ lastOp = "debounce"
  /\ failed # <<>>
  /\ Len(log) = Len(failed)
  /\ inflight = <<failed>>
  /\ queue = failed

----------------------------------------------------------------------------
\* Timestamps over the whole history of a monitor.

\* C31: of any two events a monitor has enqueued, the one enqueued later
\* has the strictly greater timestamp, whether or not the earlier one has
\* been sent and cut off the queue since.
C31_TimestampsInEnqueueOrder ==
  \A i \in 1..Len(log) : \A j \in 1..Len(log) :
    i < j => log[i].timestamp < log[j].timestamp

\* An event was sent and cut off the queue, and an event enqueued after it
\* carries the same timestamp.
C31_SameTimestampAcrossBatches ==
  /\ delivered # <<>>
  /\ queue # <<>>
  /\ queue[Len(queue)].timestamp = delivered[1].timestamp
  /\ delivered \o queue = log

----------------------------------------------------------------------------
\* Conservation of events.

\* C32: in every state the batches sent successfully, one after the other,
\* followed by the queue are the events enqueued so far, in their order and
\* each once; and the queue gets shorter only in the step in which a request
\* resolves, by the batch of that request.
C32_SentThenQueueIsHistory ==
  /\ [](delivered \o queue = log /\ NoDuplicates(log))
  /\ [][Len(queue') < Len(queue)
        => /\ lastOp' = "sendSuccess"
           /\ \E i \in 1..Len(inflight) :
                /\ delivered' = delivered \o inflight[i]
                /\ queue = inflight[i] \o queue']_vars

\* Events were enqueued while a request was in flight, a request has failed
\* and a later one has resolved: some events are sent and some are queued.
C32_Witness ==
  /\ lastOp = "sendSuccess"
  /\ Len(delivered) >= 2
  /\ queue # <<>>
  /\ Len(log) = MaxEvents
  /\ \E i \in 1..Len(log) : log[i].timestamp # log[1].timestamp

----------------------------------------------------------------------------
\* Progress of the queue.

NextLive ==
  \/ TrackEventBurst
  \/ DebounceFire
  \/ SendSuccess

\* Every request resolves in the end and every timer set fires in the end;
\* nothing obliges the application to call trackEvent or flush.
LiveSpec ==
  /\ InitFlush
  /\ [][NextLive]_vars
  /\ WF_vars(DebounceFire)
  /\ WF_vars(SendSuccess)

\* C33: when every request resolves and every timer set fires, the n-th
\* event enqueued is sent and cut off the queue in the end, for every n,
\* whether or not trackEvent or flush is called again.
C33_EveryEventSent ==
  \A n \in 1..MaxBurst : (Len(log) >= n) ~> (Len(delivered) >= n)

\* More events than one chunk were enqueued and all of them are sent: the
\* queue is empty and nothing is pending.
C33_Witness ==
  /\ lastOp = "sendSuccess"
  /\ Len(log) > MAX_CHUNK_SIZE
  /\ delivered = log
  /\ queue = <<>>
  /\ ~running

----------------------------------------------------------------------------
\* track: false

\* C34: a call of a function wrapped with track: false appends no event,
\* whichever way the call goes.
C34_UntrackedCallSilent ==
  ~wrap.track => \A c \in Calls : \A i \in 1..Len(log) :
                   log[i].runId # newRunId(c)

\* A streamed call of a function wrapped with track: false has appended an
\* end event, with no start event before it.
C34_UntrackedStreamEnd ==
  /\ ~wrap.track
  /\ lastOp = "complete"
  /\ Len(log) = 1
  /\ log[1].event = "end"
  /\ log[1].runId = newRunId(1)

\* Off the streaming path a call with track: false appends nothing, when
\* the function resolves and when it throws.
C34_UntrackedSilentOffStream ==
  ~wrap.track => log = <<>> /\ queue = <<>>

----------------------------------------------------------------------------
\* The evaluation id on the events of a thread.

\* C35: the chat event of a message tracked on a thread carries the
\* evaluationId of that thread or none, and never the evaluationId of
\* another thread of the monitor.
C35_OwnEvaluationIdOrNone ==
  \A k \in 1..Len(msgs) : \A i \in 1..Len(log) :
    log[i].event = "chat" /\ log[i].runId = msgs[k].runId
      => log[i].evaluationId \in {None, threadEval[msgs[k].thread]}

\* A message tracked on a thread opened with no evaluationId carries the
\* evaluationId of the thread opened after it.
C35_StampedWithOtherThread ==
  /\ lastOp = "trackMessage"
  /\ Len(threadEval) = 2
  /\ threadEval[1] = None
  /\ threadEval[2] # None
  /\ msgs # <<>>
  /\ msgs[Len(msgs)].thread = 1
  /\ log # <<>>
  /\ log[Len(log)].runId = msgs[Len(msgs)].runId
  /\ log[Len(log)].evaluationId = threadEval[2]

\* Threads side by side on a monitor that sends every event
\* (onlySendEvals: false).
NextStamp ==
  \/ OpenThreads
  \/ TrackMessage
  \/ DebounceFire
  \/ SendSuccess

StampSpec == InitFlush /\ [][NextStamp]_vars

====
